---------------------------- MODULE Spec2Model ----------------------------
(*
  A model of the Discord bot of src/DiscordAI/main.py: the two sliding-window
  limiters (check_spam over user_message_times and user_ai_times), the
  on_message ingress gate and the ai_command dispatcher running as coroutines
  of one asyncio event loop.

  Time is a natural number of seconds (the value time.time() returns).
  Text is modelled by its length and, for slices, by the positions it covers.
*)
EXTENDS Integers, Sequences, FiniteSets, TLC

(* ------------------------------------------------------------------ *)
(* Program constants                                                   *)
(* ------------------------------------------------------------------ *)
SPAM_TIME_WINDOW == 10
SPAM_MESSAGE_LIMIT == 5
AI_TIME_WINDOW == 60
AI_MESSAGE_LIMIT == 3

\* line 226: a response longer than this is sent in chunks
SplitThreshold == 2000
\* line 228: the stride of the chunk loop and the length of a chunk
ChunkSize == 1900
\* line 239: str(e)[:100]
DiagLimit == 100

(* ------------------------------------------------------------------ *)
(* Bounds of the model                                                 *)
(* ------------------------------------------------------------------ *)
\* Number of admission checks one run of the limiter driver makes.
MaxChecks == 7
\* Number of invocations the gateway delivers in one run of the dispatcher.
MaxEvents == 4
\* The last second the clock of the concurrent loop reaches.
MaxClock == 5
\* Number of events the gateway delivers in one run of the ingress gate.
MaxIngress == 7
\* Number of events the gateway delivers to the loop with all handlers kept.
MaxRace == 7

Users == {1, 2, 3}

\* The users who invoke /ai in the runs of the dispatcher.
DispatchUsers == {1, 2}

\* The users whose handlers interleave in the runs of the loop that keep all
\* handlers: one key, which every check contends for.
RaceUsers == {1}

\* The keys the limiter driver calls check_spam with.
DriverKeys == {1}

Limiters == {"message", "ai"}

VARIABLES
  now,                 \* the clock read by time.time()
  user_message_times,  \* defaultdict(list): user id -> timestamps (message limiter)
  user_ai_times,       \* defaultdict(list): user id -> timestamps (AI limiter)
  openai_client,       \* TRUE iff openai_client is not None (OPENAI_API_KEY was set)
  GEMINI_API_KEY,      \* TRUE iff GEMINI_API_KEY is set
  logs_channel,        \* TRUE iff the guild has a text channel named "logs"
  tasks,               \* the live handler coroutines: event id -> its frame
  inbox,               \* events delivered by the gateway, not yet dispatched
  nextId,              \* the id of the next event
  trace                \* the limiter driver's record of its calls and their results

vars == <<now, user_message_times, user_ai_times, openai_client, GEMINI_API_KEY,
          logs_channel, tasks, inbox, nextId, trace>>

limiterVars == <<now, user_message_times, user_ai_times, trace>>
botVars == <<openai_client, GEMINI_API_KEY, logs_channel, tasks, inbox, nextId>>

(* ------------------------------------------------------------------ *)
(* check_spam                                                          *)
(* ------------------------------------------------------------------ *)
TimeWindow(lim) == IF lim = "message" THEN SPAM_TIME_WINDOW ELSE AI_TIME_WINDOW

MessageLimit(lim) == IF lim = "message" THEN SPAM_MESSAGE_LIMIT ELSE AI_MESSAGE_LIMIT

\* The filter with <= for <: a timestamp exactly time_window old is kept.
RetainedInclusive(t, n, time_window) == n - t <= time_window

\* line 106: the filter of the list comprehension
Retained(t, n, time_window) == n - t < time_window

\* The comparison with >= for >: the message_limit-th call is rejected.
OverLimitOffByOne(count, message_limit) == count >= message_limit

\* line 108: the comparison that decides
OverLimit(count, message_limit) == count > message_limit

\* check_spam without line 106: nothing is pruned.
check_spamKeepsOld(user_id, message_times_dict, time_window, message_limit, n) ==
  LET appended == Append(message_times_dict[user_id], n)
  IN [dict |-> [message_times_dict EXCEPT ![user_id] = appended],
      spam |-> OverLimit(Len(appended), message_limit)]

\* check_spam returning True before line 107 when the list is already full:
\* a rejected call leaves no timestamp.
check_spamSkipsRejected(user_id, message_times_dict, time_window, message_limit, n) ==
  LET user_times == message_times_dict[user_id]
      kept == SelectSeq(user_times, LAMBDA t : Retained(t, n, time_window))
  IN IF OverLimit(Len(kept) + 1, message_limit)
       THEN [dict |-> [message_times_dict EXCEPT ![user_id] = kept], spam |-> TRUE]
       ELSE [dict |-> [message_times_dict EXCEPT ![user_id] = Append(kept, n)],
             spam |-> FALSE]

\* check_spam with "user_times = [...]" at line 106, which binds the local name
\* to a new list: the dictionary's list is neither pruned nor appended to.
check_spamRebinds(user_id, message_times_dict, time_window, message_limit, n) ==
  LET user_times == message_times_dict[user_id]
      kept == SelectSeq(user_times, LAMBDA t : Retained(t, n, time_window))
  IN [dict |-> message_times_dict,
      spam |-> OverLimit(Len(kept) + 1, message_limit)]

\* check_spam over a dictionary built as defaultdict(lambda: shared): every
\* key holds the same list object.
check_spamSharedList(user_id, message_times_dict, time_window, message_limit, n) ==
  LET user_times == message_times_dict[user_id]
      kept == SelectSeq(user_times, LAMBDA t : Retained(t, n, time_window))
      appended == Append(kept, n)
  IN [dict |-> [u \in DOMAIN message_times_dict |-> appended],
      spam |-> OverLimit(Len(appended), message_limit)]

\* check_spam(user_id, message_times_dict, time_window, message_limit) called
\* when time.time() returns n: the updated dictionary and the returned value.
check_spam(user_id, message_times_dict, time_window, message_limit, n) ==
  LET user_times == message_times_dict[user_id]
      kept == SelectSeq(user_times, LAMBDA t : Retained(t, n, time_window))
      appended == Append(kept, n)
  IN [dict |-> [message_times_dict EXCEPT ![user_id] = appended],
      spam |-> OverLimit(Len(appended), message_limit)]

(* ------------------------------------------------------------------ *)
(* Strings: backend selectors and the provider names built from them   *)
(* ------------------------------------------------------------------ *)
\* A string is the sequence of its characters.
str_chatgpt == <<"c", "h", "a", "t", "g", "p", "t">>
str_gemini == <<"g", "e", "m", "i", "n", "i">>
str_ChatGPT == <<"C", "h", "a", "t", "G", "P", "T">>
str_Gemini == <<"G", "e", "m", "i", "n", "i">>
str_GEMINI == <<"G", "E", "M", "I", "N", "I">>
str_claude == <<"c", "l", "a", "u", "d", "e">>

ToLower == [A |-> "a", B |-> "b", C |-> "c", D |-> "d", E |-> "e", F |-> "f",
            G |-> "g", H |-> "h", I |-> "i", J |-> "j", K |-> "k", L |-> "l",
            M |-> "m", N |-> "n", O |-> "o", P |-> "p", Q |-> "q", R |-> "r",
            S |-> "s", T |-> "t", U |-> "u", V |-> "v", W |-> "w", X |-> "x",
            Y |-> "y", Z |-> "z"]

ToUpper == [a |-> "A", b |-> "B", c |-> "C", d |-> "D", e |-> "E", f |-> "F",
            g |-> "G", h |-> "H", i |-> "I", j |-> "J", k |-> "K", l |-> "L",
            m |-> "M", n |-> "N", o |-> "O", p |-> "P", q |-> "Q", r |-> "R",
            s |-> "S", t |-> "T", u |-> "U", v |-> "V", w |-> "W", x |-> "X",
            y |-> "Y", z |-> "Z"]

LowerChar(c) == IF c \in DOMAIN ToLower THEN ToLower[c] ELSE c
UpperChar(c) == IF c \in DOMAIN ToUpper THEN ToUpper[c] ELSE c

\* The selector compared as it was typed, without .lower()
lowerForgotten(str) == str

\* str.lower()
lower(str) == [k \in 1..Len(str) |-> LowerChar(str[k])]

\* str.title() of a word of letters: the first letter upper case, the rest lower
title(str) == [k \in 1..Len(str) |-> IF k = 1 THEN UpperChar(str[k]) ELSE LowerChar(str[k])]

\* line 184: ['chatgpt', 'gemini']
KnownModels == {str_chatgpt, str_gemini}

Min(a, b) == IF a < b THEN a ELSE b

\* str(e) in place of str(e)[:100]
NotTruncated(d) == d

\* line 239: str(e)[:100], on a diagnostic of d characters
Truncate(d) == Min(d, DiagLimit)

\* Each backend tested with the other backend's credential.
UnavailableSwapped(ai_model) ==
  \/ ai_model = str_chatgpt /\ ~GEMINI_API_KEY
  \/ ai_model = str_gemini /\ ~openai_client

\* lines 194, 198: the credential test of the selected backend
Unavailable(ai_model) ==
  \/ ai_model = str_chatgpt /\ ~openai_client
  \/ ai_model = str_gemini /\ ~GEMINI_API_KEY

(* ------------------------------------------------------------------ *)
(* Handler frames and the operations they await                        *)
(* ------------------------------------------------------------------ *)
\* One awaited operation of a handler: a message sent, the deferred
\* acknowledgment, the executor call, the creation of the logs channel.
\*   lo, n : the response characters [lo, lo+n) a chunk carries (n: the
\*           diagnostic characters of an error notice, the duration of a call)
\*   len   : the length of the whole message (of a call that raised: the
\*           length of the exception's str())
\*   st    : "inflight" until the operation completes, then its outcome
Op(op, by, kind, provider, lo, n, len) ==
  [op |-> op, by |-> by, kind |-> kind, provider |-> provider,
   lo |-> lo, n |-> n, len |-> len, t |-> now, st |-> "inflight"]

NewTask(kind, author, bot, guild, content, sel) ==
  [kind |-> kind, author |-> author, bot |-> bot, guild |-> guild,
   content |-> content, sel |-> sel, arrived |-> now, started |-> -1,
   pc |-> "pending", ai_model |-> <<>>, rem |-> 0, hung |-> FALSE,
   ai_response |-> -1, i |-> 0, fx |-> <<>>]

\* Start an awaited operation: the coroutine is suspended at pc until it completes.
Await(tr, e, pc) == [tr EXCEPT !.fx = Append(@, e), !.pc = pc]

\* The awaited operation has completed with this outcome.
Settle(tr, outcome) == [tr EXCEPT !.fx[Len(tr.fx)].st = outcome]

Done(tr) == [tr EXCEPT !.pc = "done"]

Send(tr, by, kind, provider, lo, n, len, pc) ==
  Await(tr, Op("send", by, kind, provider, lo, n, len), pc)

\* on_command_error, lines 289-299
on_command_error(tr, error) ==
  IF error = "MissingPermissions"
    THEN Send(tr, "on_command_error", "permission", <<>>, 0, 0, 48, "await_notice")
  ELSE IF error = "CommandNotFound"
    THEN Done(tr)
  ELSE IF error = "MissingRequiredArgument"
    THEN Send(tr, "on_command_error", "missing", <<>>, 0, 0, 45, "await_notice")
  ELSE Send(tr, "on_command_error", "generic", <<>>, 0, 0, 49, "await_notice")

\* "🤖 **{ai_model.title()}**: "
PrefixLen(ai_model) == 8 + Len(title(ai_model))

\* line 229: ai_response[i:i+1900] of a response of n characters
Chunk(n, i) == [lo |-> i, n |-> Min(i + ChunkSize, n) - i]

\* The chunks sent without awaiting each send (as tasks of their own): from
\* loop index i on, every remaining chunk is started at once.
SendResponseNoAwait(tr, i) ==
  LET n == tr.ai_response
      name == title(tr.ai_model)
      starts == {j \in i..(n - 1) : j % ChunkSize = 0}
      chunkOp(j) == Op("send", "ai_command", "chunk", IF j = 0 THEN name ELSE <<>>,
                       Chunk(n, j).lo, Chunk(n, j).n,
                       (IF j = 0 THEN PrefixLen(tr.ai_model) ELSE 0) + Chunk(n, j).n)
  IN IF n > SplitThreshold
       THEN [tr EXCEPT !.i = n - 1 - ((n - 1) % ChunkSize),
                       !.pc = "await_chunk",
                       !.fx = @ \o [q \in 1..Cardinality(starts) |->
                                     chunkOp(i + (q - 1) * ChunkSize)]]
       ELSE Send(tr, "ai_command", "reply", name, 0, n, PrefixLen(tr.ai_model) + n,
                 "await_reply")

\* lines 226-235 at loop index i: the next message of the response
SendResponse(tr, i) ==
  LET n == tr.ai_response
      name == title(tr.ai_model)
  IN IF n > SplitThreshold
       THEN LET c == Chunk(n, i)
            IN IF i = 0
                 THEN Send([tr EXCEPT !.i = i], "ai_command", "chunk", name, c.lo, c.n,
                           PrefixLen(tr.ai_model) + c.n, "await_chunk")
                 ELSE Send([tr EXCEPT !.i = i], "ai_command", "chunk", <<>>, c.lo, c.n,
                           c.n, "await_chunk")
       ELSE Send(tr, "ai_command", "reply", name, 0, n, PrefixLen(tr.ai_model) + n,
                 "await_reply")

\* lines 237-239: the except clause, on an exception whose str() has d characters
SendError(tr, d) ==
  Send(tr, "ai_command", "error", title(tr.ai_model), 0, Truncate(d),
       30 + Len(title(tr.ai_model)) + Truncate(d), "await_error")

\* ctx.defer() moved to the top of the command, before the three checks.
ai_commandDeferFirst(tr, ai_times) ==
  [t |-> Await([tr EXCEPT !.ai_model = lower(tr.sel)],
               Op("defer", "ai_command", "defer", <<>>, 0, 0, 0), "await_defer"),
   ai |-> ai_times]

\* ai_command with the availability checks of lines 194-200 moved before the
\* limiter of line 189: a request for an unavailable backend leaves no timestamp.
ai_commandAvailabilityFirst(tr, ai_times) ==
  LET ai_model == lower(tr.sel)
      t1 == [tr EXCEPT !.ai_model = ai_model]
  IN IF ai_model \notin KnownModels
       THEN [t |-> Send(t1, "ai_command", "invalid", <<>>, 0, 0, 46, "await_invalid"),
             ai |-> ai_times]
     ELSE IF Unavailable(ai_model)
       THEN [t |-> Send(t1, "ai_command", "unavailable",
                        IF ai_model = str_chatgpt THEN str_ChatGPT ELSE str_Gemini,
                        0, 0, IF ai_model = str_chatgpt THEN 45 ELSE 44,
                        "await_unavailable"),
             ai |-> ai_times]
       ELSE LET r == check_spam(tr.author, ai_times, AI_TIME_WINDOW, AI_MESSAGE_LIMIT, now)
            IN IF r.spam
                 THEN [t |-> Send(t1, "ai_command", "throttle", <<>>, 0, 0, 59, "await_throttle"),
                       ai |-> r.dict]
                 ELSE [t |-> Await(t1, Op("defer", "ai_command", "defer", <<>>, 0, 0, 0),
                                   "await_defer"),
                       ai |-> r.dict]

\* ai_command, lines 182-203: up to its first await.
\* Gives the frame and the AI limiter's dictionary.
ai_command(tr, ai_times) ==
  LET ai_model == lower(tr.sel)
      t1 == [tr EXCEPT !.ai_model = ai_model]
  IN IF ai_model \notin KnownModels
       THEN [t |-> Send(t1, "ai_command", "invalid", <<>>, 0, 0, 46, "await_invalid"),
             ai |-> ai_times]
       ELSE LET r == check_spam(tr.author, ai_times, AI_TIME_WINDOW, AI_MESSAGE_LIMIT, now)
            IN IF r.spam
                 THEN [t |-> Send(t1, "ai_command", "throttle", <<>>, 0, 0, 59, "await_throttle"),
                       ai |-> r.dict]
               ELSE IF Unavailable(ai_model)
                 THEN [t |-> Send(t1, "ai_command", "unavailable",
                                  IF ai_model = str_chatgpt THEN str_ChatGPT ELSE str_Gemini,
                                  0, 0, IF ai_model = str_chatgpt THEN 45 ELSE 44,
                                  "await_unavailable"),
                       ai |-> r.dict]
               ELSE [t |-> Await(t1, Op("defer", "ai_command", "defer", <<>>, 0, 0, 0),
                                 "await_defer"),
                     ai |-> r.dict]

\* bot.process_commands, line 171: route the message to its command
process_commands(tr, ai_times) ==
  IF tr.content = "ai" THEN ai_command(tr, ai_times)
  ELSE IF tr.content = "unknown"
    THEN [t |-> on_command_error(tr, "CommandNotFound"), ai |-> ai_times]
  ELSE IF tr.content = "noargs"
    THEN [t |-> on_command_error(tr, "MissingRequiredArgument"), ai |-> ai_times]
  ELSE [t |-> Done(tr), ai |-> ai_times]

\* lines 143-165: the audit-log entry, description=message.content[:1900]
SendLog(tr) == Send(tr, "on_message", "log", <<>>, 0, 0, 0, "await_log")

\* on_message without lines 129-130: a bot's message is handled like a user's.
on_messageNoBotCheck(tr, msg_times, ai_times) ==
  LET r == check_spam(tr.author, msg_times, SPAM_TIME_WINDOW, SPAM_MESSAGE_LIMIT, now)
  IN IF r.spam
       THEN [t |-> Send(tr, "on_message", "warn", <<>>, 0, 0, 49, "await_warn"),
             msg |-> r.dict, ai |-> ai_times]
     ELSE IF tr.guild
       THEN [t |-> IF logs_channel
                     THEN SendLog(tr)
                     ELSE Await(tr, Op("create_channel", "get_or_create_logs_channel",
                                       "logs", <<>>, 0, 0, 0), "await_create"),
             msg |-> r.dict, ai |-> ai_times]
     ELSE LET c == process_commands(tr, ai_times)
          IN [t |-> c.t, msg |-> r.dict, ai |-> c.ai]

\* on_message calling check_spam at line 133 without acting on what it
\* returns: no warning, and the message goes on to the log and the commands.
on_messageNoGate(tr, msg_times, ai_times) ==
  IF tr.bot
    THEN [t |-> Done(tr), msg |-> msg_times, ai |-> ai_times]
    ELSE LET r == check_spam(tr.author, msg_times, SPAM_TIME_WINDOW, SPAM_MESSAGE_LIMIT, now)
         IN IF tr.guild
              THEN [t |-> IF logs_channel
                            THEN SendLog(tr)
                            ELSE Await(tr, Op("create_channel", "get_or_create_logs_channel",
                                              "logs", <<>>, 0, 0, 0), "await_create"),
                    msg |-> r.dict, ai |-> ai_times]
            ELSE LET c == process_commands(tr, ai_times)
                 IN [t |-> c.t, msg |-> r.dict, ai |-> c.ai]

\* on_message passing user_ai_times to check_spam at line 133: one dictionary
\* serves both limiters.
on_messageSharedDict(tr, msg_times, ai_times) ==
  IF tr.bot
    THEN [t |-> Done(tr), msg |-> msg_times, ai |-> ai_times]
    ELSE LET r == check_spam(tr.author, ai_times, SPAM_TIME_WINDOW, SPAM_MESSAGE_LIMIT, now)
         IN IF r.spam
              THEN [t |-> Send(tr, "on_message", "warn", <<>>, 0, 0, 49, "await_warn"),
                    msg |-> msg_times, ai |-> r.dict]
            ELSE IF tr.guild
              THEN [t |-> IF logs_channel
                            THEN SendLog(tr)
                            ELSE Await(tr, Op("create_channel", "get_or_create_logs_channel",
                                              "logs", <<>>, 0, 0, 0), "await_create"),
                    msg |-> msg_times, ai |-> r.dict]
            ELSE LET c == process_commands(tr, r.dict)
                 IN [t |-> c.t, msg |-> msg_times, ai |-> c.ai]

\* on_message, lines 128-171: up to its first await.
\* Gives the frame and both limiters' dictionaries.
on_message(tr, msg_times, ai_times) ==
  IF tr.bot
    THEN [t |-> Done(tr), msg |-> msg_times, ai |-> ai_times]
    ELSE LET r == check_spam(tr.author, msg_times, SPAM_TIME_WINDOW, SPAM_MESSAGE_LIMIT, now)
         IN IF r.spam
              THEN [t |-> Send(tr, "on_message", "warn", <<>>, 0, 0, 49, "await_warn"),
                    msg |-> r.dict, ai |-> ai_times]
            ELSE IF tr.guild
              THEN [t |-> IF logs_channel
                            THEN SendLog(tr)
                            ELSE Await(tr, Op("create_channel", "get_or_create_logs_channel",
                                              "logs", <<>>, 0, 0, 0), "await_create"),
                    msg |-> r.dict, ai |-> ai_times]
            ELSE LET c == process_commands(tr, ai_times)
                 IN [t |-> c.t, msg |-> r.dict, ai |-> c.ai]

\* Resume without the except clauses of lines 94-97 and 166-169: an exception
\* of create_text_channel or of log_channel.send leaves on_message.
ResumeUncaught(tr, outcome, d, ai_times) ==
  LET s == Settle(tr, outcome)
      same(t) == [t |-> t, ai |-> ai_times, logs |-> logs_channel]
      routed == LET c == process_commands(s, ai_times)
                IN [t |-> c.t, ai |-> c.ai, logs |-> logs_channel]
  IN CASE tr.pc = "await_warn" ->
            \* lines 134-138: Forbidden is passed over, another exception leaves
            \* on_message; either way the handler ends here
            same(Done(s))
       [] tr.pc = "await_create" ->
            \* lines 88-99, then 143-165 with the channel, or 171 without it
            IF outcome = "ok"
              THEN [t |-> SendLog(s), ai |-> ai_times, logs |-> TRUE]
              ELSE same(Done(s))
       [] tr.pc = "await_log" ->
            IF outcome = "ok" THEN routed ELSE same(Done(s))
       [] tr.pc \in {"await_invalid", "await_throttle", "await_unavailable", "await_error"} ->
            \* lines 185-186, 190-191, 195-200, 239: nothing catches the exception
            IF outcome = "ok" THEN same(Done(s))
                              ELSE same(on_command_error(s, "CommandInvokeError"))
       [] tr.pc = "await_defer" ->
            \* line 203, raising
            same(on_command_error(s, "CommandInvokeError"))
       [] tr.pc = "await_chunk" ->
            \* lines 228-233, the next turn of the loop; 237-239 on an exception
            IF outcome = "ok"
              THEN IF s.i + ChunkSize < s.ai_response
                     THEN same(SendResponse(s, s.i + ChunkSize))
                     ELSE same(Done(s))
              ELSE same(SendError(s, d))
       [] tr.pc = "await_reply" ->
            \* line 235; 237-239 on an exception
            IF outcome = "ok" THEN same(Done(s)) ELSE same(SendError(s, d))
       [] OTHER ->
            \* "await_notice", lines 292-299: on_command_error ends
            same(Done(s))

\* The handler resumes after the operation it awaited at tr.pc completed with
\* this outcome ("ok", or the exception raised: "forbidden" for
\* discord.Forbidden, "error" for any other, whose str() has d characters).
\* Gives the frame, the AI limiter's dictionary and the guild's logs channel.
Resume(tr, outcome, d, ai_times) ==
  LET s == Settle(tr, outcome)
      same(t) == [t |-> t, ai |-> ai_times, logs |-> logs_channel]
      routed == LET c == process_commands(s, ai_times)
                IN [t |-> c.t, ai |-> c.ai, logs |-> logs_channel]
  IN CASE tr.pc = "await_warn" ->
            \* lines 134-138: Forbidden is passed over, another exception leaves
            \* on_message; either way the handler ends here
            same(Done(s))
       [] tr.pc = "await_create" ->
            \* lines 88-99, then 143-165 with the channel, or 171 without it
            IF outcome = "ok"
              THEN [t |-> SendLog(s), ai |-> ai_times, logs |-> TRUE]
              ELSE routed
       [] tr.pc = "await_log" ->
            \* lines 165-171: an exception of the send is caught
            routed
       [] tr.pc \in {"await_invalid", "await_throttle", "await_unavailable", "await_error"} ->
            \* lines 185-186, 190-191, 195-200, 239: nothing catches the exception
            IF outcome = "ok" THEN same(Done(s))
                              ELSE same(on_command_error(s, "CommandInvokeError"))
       [] tr.pc = "await_defer" ->
            \* line 203, raising
            same(on_command_error(s, "CommandInvokeError"))
       [] tr.pc = "await_chunk" ->
            \* lines 228-233, the next turn of the loop; 237-239 on an exception
            IF outcome = "ok"
              THEN IF s.i + ChunkSize < s.ai_response
                     THEN same(SendResponse(s, s.i + ChunkSize))
                     ELSE same(Done(s))
              ELSE same(SendError(s, d))
       [] tr.pc = "await_reply" ->
            \* line 235; 237-239 on an exception
            IF outcome = "ok" THEN same(Done(s)) ELSE same(SendError(s, d))
       [] OTHER ->
            \* "await_notice", lines 292-299: on_command_error ends
            same(Done(s))

(* ------------------------------------------------------------------ *)
(* The event loop                                                      *)
(* ------------------------------------------------------------------ *)
Running(tr) == tr.pc = "await_backend" /\ ~tr.hung

\* A backend call has returned and its coroutine has not been resumed yet.
Completed(tr) == Running(tr) /\ tr.rem = 0

AwaitsDiscord(tr) == tr.pc \notin {"pending", "await_backend", "done"}

Post(tr) ==
  /\ tasks' = tasks @@ (nextId :> tr)
  /\ inbox' = Append(inbox, nextId)
  /\ nextId' = nextId + 1
  /\ UNCHANGED <<limiterVars, openai_client, GEMINI_API_KEY, logs_channel>>

\* The gateway delivers a message.
MessageArrives(author, bot, guild, content, sel) ==
  Post(NewTask("message", author, bot, guild, content, sel))

\* The gateway delivers an invocation of the slash command /ai.
InteractionArrives(author, guild, sel) ==
  Post(NewTask("interaction", author, FALSE, guild, "ai", sel))

\* The loop starts the handler of the oldest event and runs it to its first await.
Dispatch ==
  /\ inbox # <<>>
  /\ LET id == Head(inbox)
         tr == [tasks[id] EXCEPT !.started = now]
         r == IF tr.kind = "message"
                THEN on_message(tr, user_message_times, user_ai_times)
                ELSE LET c == ai_command(tr, user_ai_times)
                     IN [t |-> c.t, msg |-> user_message_times, ai |-> c.ai]
     IN /\ tasks' = [tasks EXCEPT ![id] = r.t]
        /\ user_message_times' = r.msg
        /\ user_ai_times' = r.ai
        /\ inbox' = Tail(inbox)
  /\ UNCHANGED <<now, trace, openai_client, GEMINI_API_KEY, logs_channel, nextId>>

\* An awaited Discord operation completes and the loop resumes its handler.
IoDone(id, outcome, d) ==
  /\ id \in DOMAIN tasks
  /\ AwaitsDiscord(tasks[id])
  /\ ~(tasks[id].pc = "await_defer" /\ outcome = "ok")
  /\ d = 0 \/ (outcome # "ok" /\ tasks[id].pc \in {"await_chunk", "await_reply"})
  /\ LET r == Resume(tasks[id], outcome, d, user_ai_times)
     IN /\ tasks' = [tasks EXCEPT ![id] = r.t]
        /\ user_ai_times' = r.ai
        /\ logs_channel' = r.logs
  /\ UNCHANGED <<now, user_message_times, trace, openai_client, GEMINI_API_KEY, inbox, nextId>>

\* The backend call made on the loop's own thread, without run_in_executor:
\* nothing else runs until it returns, dur seconds later.
InvokeBackendBlocking(id, dur, hung) ==
  /\ id \in DOMAIN tasks
  /\ tasks[id].pc = "await_defer"
  /\ ~hung
  /\ now' = now + dur
  /\ LET s == Settle(tasks[id], "ok")
         c == Await(s, Op("invoke", "ai_command", "backend", s.ai_model, 0, dur, 0),
                    "await_backend")
     IN tasks' = [k \in DOMAIN tasks |->
                    IF k = id THEN [c EXCEPT !.rem = 0, !.hung = FALSE]
                    ELSE IF Running(tasks[k])
                      THEN [tasks[k] EXCEPT !.rem = IF @ > dur THEN @ - dur ELSE 0]
                    ELSE tasks[k]]
  /\ UNCHANGED <<user_message_times, user_ai_times, trace, openai_client, GEMINI_API_KEY,
                 logs_channel, inbox, nextId>>

\* lines 203-223: the deferred acknowledgment is through and the handler hands
\* the backend call to the executor; the call will take dur seconds, or hang.
InvokeBackend(id, dur, hung) ==
  /\ id \in DOMAIN tasks
  /\ tasks[id].pc = "await_defer"
  /\ LET s == Settle(tasks[id], "ok")
         c == Await(s, Op("invoke", "ai_command", "backend", s.ai_model, 0, dur, 0),
                    "await_backend")
     IN tasks' = [tasks EXCEPT ![id] = [c EXCEPT !.rem = dur, !.hung = hung]]
  /\ UNCHANGED <<limiterVars, openai_client, GEMINI_API_KEY, logs_channel, inbox, nextId>>

\* The backend call returns a text of n characters (lines 215, 223) and the
\* handler goes on to line 226.
BackendReturns(id, n) ==
  /\ id \in DOMAIN tasks
  /\ Completed(tasks[id])
  /\ LET s == [Settle(tasks[id], "returned") EXCEPT !.ai_response = n]
     IN tasks' = [tasks EXCEPT ![id] = SendResponse(s, 0)]
  /\ UNCHANGED <<limiterVars, openai_client, GEMINI_API_KEY, logs_channel, inbox, nextId>>

\* The backend call raises (or lines 215, 223, 226 raise on what it returned):
\* an exception whose str() has d characters, caught at line 237.
BackendRaises(id, d) ==
  /\ id \in DOMAIN tasks
  /\ Completed(tasks[id])
  /\ LET s == Settle(tasks[id], "raised")
         k == Len(s.fx)
     IN tasks' = [tasks EXCEPT ![id] = SendError([s EXCEPT !.fx[k].len = d], d)]
  /\ UNCHANGED <<limiterVars, openai_client, GEMINI_API_KEY, logs_channel, inbox, nextId>>

\* A second passes: every running backend call is a second nearer to its end.
\* The loop's own steps and the round trips to Discord take no time on this
\* scale: the clock moves only when no event waits to be dispatched, no
\* returned call waits to be resumed and no handler waits for Discord.
Tick ==
  /\ now < MaxClock
  /\ inbox = <<>>
  /\ \A id \in DOMAIN tasks : ~Completed(tasks[id]) /\ ~AwaitsDiscord(tasks[id])
  /\ now' = now + 1
  /\ tasks' = [id \in DOMAIN tasks |->
                 IF Running(tasks[id]) THEN [tasks[id] EXCEPT !.rem = @ - 1] ELSE tasks[id]]
  /\ UNCHANGED <<user_message_times, user_ai_times, trace, openai_client, GEMINI_API_KEY,
                 logs_channel, inbox, nextId>>

\* A handler that has ended is discarded.
Finish(id) ==
  /\ id \in DOMAIN tasks
  /\ tasks[id].pc = "done"
  /\ tasks' = [k \in DOMAIN tasks \ {id} |-> tasks[k]]
  /\ UNCHANGED <<limiterVars, openai_client, GEMINI_API_KEY, logs_channel, inbox, nextId>>

(* ------------------------------------------------------------------ *)
(* The limiter driver: sequences of admission checks                   *)
(* ------------------------------------------------------------------ *)
\* The time that passes before a call: none, half a window, a whole window.
Gaps(lim) == {0, TimeWindow(lim) \div 2, TimeWindow(lim)}

TraceLen == Len(trace["message"][1]) + Len(trace["ai"][1])

AdmissionCheck(lim, u, gap) ==
  /\ TraceLen < MaxChecks
  /\ LET n == now + gap
         r == IF lim = "message"
                THEN check_spam(u, user_message_times, SPAM_TIME_WINDOW, SPAM_MESSAGE_LIMIT, n)
                ELSE check_spam(u, user_ai_times, AI_TIME_WINDOW, AI_MESSAGE_LIMIT, n)
     IN /\ now' = n
        /\ user_message_times' = IF lim = "message" THEN r.dict ELSE user_message_times
        /\ user_ai_times' = IF lim = "ai" THEN r.dict ELSE user_ai_times
        /\ trace' = [trace EXCEPT ![lim][u] = Append(@, [t |-> n, spam |-> r.spam])]
        /\ UNCHANGED botVars

Init ==
  /\ now = 0
  /\ user_message_times = [u \in Users |-> <<>>]
  /\ user_ai_times = [u \in Users |-> <<>>]
  /\ openai_client \in BOOLEAN
  /\ GEMINI_API_KEY \in BOOLEAN
  /\ logs_channel \in BOOLEAN
  /\ tasks = <<>>
  /\ inbox = <<>>
  /\ nextId = 1
  /\ trace = [lim \in Limiters |-> [u \in Users |-> <<>>]]

(* ------------------------------------------------------------------ *)
(* Specifications                                                      *)
(* ------------------------------------------------------------------ *)
Selectors == {str_chatgpt, str_ChatGPT, str_GEMINI, str_claude}
Contents == {"text", "ai", "unknown", "noargs"}
Outcomes == {"ok", "forbidden", "error"}
ResponseLengths == {0, 1, 1900, 1901, 1985, 1986, 2000, 2001, 3800, 3801, 5000}
DiagLengths == {0, 38, 100, 101, 250}

\* The dispatcher, one invocation of /ai at a time, over every input.
Next ==
  \/ /\ tasks = <<>>
     /\ nextId <= MaxEvents
     /\ \E u \in DispatchUsers, sel \in Selectors : InteractionArrives(u, TRUE, sel)
  \/ Dispatch
  \/ \E id \in DOMAIN tasks, o \in {"ok", "error"}, d \in {0, 250} : IoDone(id, o, d)
  \/ \E id \in DOMAIN tasks : InvokeBackend(id, 0, FALSE)
  \/ \E id \in DOMAIN tasks, n \in ResponseLengths : BackendReturns(id, n)
  \/ \E id \in DOMAIN tasks, d \in DiagLengths : BackendRaises(id, d)
  \/ \E id \in DOMAIN tasks : Finish(id)

Spec == Init /\ [][Next]_vars

\* The event loop with several handlers and backend calls in flight: every
\* user sends one event, an invocation of /ai or a plain message, at any time.
NextLoop ==
  \/ \E u \in Users :
       /\ \A id \in DOMAIN tasks : tasks[id].author # u
       /\ \/ InteractionArrives(u, TRUE, str_chatgpt)
          \/ MessageArrives(u, FALSE, TRUE, "text", <<>>)
  \/ Dispatch
  \/ \E id \in DOMAIN tasks : IoDone(id, "ok", 0)
  \/ \E id \in DOMAIN tasks : \/ \E dur \in {1, 5} : InvokeBackend(id, dur, FALSE)
                              \/ InvokeBackend(id, 0, TRUE)
  \/ \E id \in DOMAIN tasks : BackendReturns(id, 5000)
  \/ Tick

InitLoop == Init /\ openai_client /\ GEMINI_API_KEY

SpecLoop == InitLoop /\ [][NextLoop]_vars

\* The ingress gate, one event at a time: messages of users and of bots, in
\* guilds and in direct messages, plain or carrying a command, and invocations
\* of /ai; every awaited Discord operation may go through or raise.
NextIngress ==
  \/ /\ tasks = <<>>
     /\ nextId <= MaxIngress
     /\ \E u \in DispatchUsers :
          \/ \E bot \in BOOLEAN, guild \in BOOLEAN, content \in Contents :
               MessageArrives(u, bot, guild, content, str_chatgpt)
          \/ InteractionArrives(u, TRUE, str_chatgpt)
  \/ Dispatch
  \/ \E id \in DOMAIN tasks, o \in Outcomes : IoDone(id, o, 0)
  \/ \E id \in DOMAIN tasks : InvokeBackend(id, 0, FALSE)
  \/ \E id \in DOMAIN tasks : BackendReturns(id, 1)
  \/ \E id \in DOMAIN tasks : Finish(id)

InitIngress == Init /\ openai_client /\ GEMINI_API_KEY

SpecIngress == InitIngress /\ [][NextIngress]_vars

\* Handlers of one guild interleaved at their awaits: guild messages that
\* carry an /ai command, whose handler checks the message limiter when it
\* starts and the AI limiter after the send of the log entry, and invocations
\* of /ai, whose handler checks the AI limiter when it starts.
NextRace ==
  \/ /\ nextId <= MaxRace
     /\ \E u \in RaceUsers :
          \/ MessageArrives(u, FALSE, TRUE, "ai", str_chatgpt)
          \/ InteractionArrives(u, TRUE, str_chatgpt)
  \/ Dispatch
  \/ \E id \in DOMAIN tasks : IoDone(id, "ok", 0)

InitRace == Init /\ openai_client /\ GEMINI_API_KEY /\ logs_channel

SpecRace == InitRace /\ [][NextRace]_vars

\* Sequences of admission checks on a key.
NextLimiter ==
  \E lim \in Limiters, u \in DriverKeys : \E gap \in Gaps(lim) : AdmissionCheck(lim, u, gap)

InitLimiter == Init /\ openai_client /\ GEMINI_API_KEY /\ logs_channel

SpecLimiter == InitLimiter /\ [][NextLimiter]_vars

(* ------------------------------------------------------------------ *)
(* The limiter: sequences of admission checks (SpecLimiter)            *)
(* ------------------------------------------------------------------ *)
Keys == {k \in Limiters \X Users : TRUE}

\* The calls made so far with limiter k[1] on key k[2], oldest first.
Calls(k) == trace[k[1]][k[2]]

\* No two consecutive calls of h are time_window seconds or more apart.
NoGap(h, time_window) == \A j \in 2..Len(h) : h[j].t - h[j - 1].t < time_window

\* Call i opens a span: it is the first call at its time.
Opens(h, i) == i = 1 \/ h[i - 1].t < h[i].t

\* Call j falls in the time_window seconds that start with call i.
InSpan(h, i, j, time_window) == i <= j /\ j <= Len(h) /\ h[j].t - h[i].t < time_window

\* The span that call i opens holds more than message_limit calls.
Crowded(h, i, time_window, message_limit) == InSpan(h, i, i + message_limit, time_window)

\* No earlier call is less than time_window seconds before call i.
Fresh(h, i, time_window) == i = 1 \/ h[i].t - h[i - 1].t >= time_window

\* In the span call i opens, the calls beyond the message_limit-th are rejected.
RejectsBeyond(h, i, time_window, message_limit) ==
  \A j \in (i + message_limit)..Len(h) : InSpan(h, i, j, time_window) => h[j].spam

\* In the span call i opens, the first message_limit calls are admitted.
AdmitsFirst(h, i, message_limit) ==
  \A j \in i..(i + message_limit - 1) : ~h[j].spam

\* C1, as stated: on a history without a gap of W or more, in every rolling
\* W-second span that holds more than L calls of the key, every call beyond the
\* L-th is rejected and all the calls before it in the span are admitted.
C1_AsStated ==
  \A k \in Keys :
    LET h == Calls(k)
        W == TimeWindow(k[1])
        L == MessageLimit(k[1])
    IN NoGap(h, W) =>
         \A i \in 1..Len(h) :
           Opens(h, i) /\ Crowded(h, i, W, L) =>
             RejectsBeyond(h, i, W, L) /\ AdmitsFirst(h, i, L)

\* C1, amended: in every rolling W-second span that holds more than L calls of
\* the key, every call beyond the L-th is rejected; the L calls before it are
\* all admitted when no earlier call of the key is less than W seconds before
\* the span (the span opens the history, or follows a gap of W or more).
C1_SpanAdmission ==
  \A k \in Keys :
    LET h == Calls(k)
        W == TimeWindow(k[1])
        L == MessageLimit(k[1])
    IN \A i \in 1..Len(h) :
         Opens(h, i) /\ Crowded(h, i, W, L) =>
           /\ RejectsBeyond(h, i, W, L)
           /\ Fresh(h, i, W) => AdmitsFirst(h, i, L)

\* A crowded span that opens the history and a crowded span that does not,
\* whose first L calls include a rejected one.
C1_Witness ==
  \E k \in Keys :
    LET h == Calls(k)
        W == TimeWindow(k[1])
        L == MessageLimit(k[1])
    IN /\ Crowded(h, 1, W, L)
       /\ \E i \in 2..Len(h) :
            Opens(h, i) /\ Crowded(h, i, W, L) /\ ~AdmitsFirst(h, i, L)

\* C2: a call that comes W seconds or more after the previous call of its key
\* is admitted, whatever came before; a gap of exactly W is enough.
C2_GapResets ==
  \A k \in Keys :
    LET h == Calls(k)
    IN \A j \in 2..Len(h) :
         h[j].t - h[j - 1].t >= TimeWindow(k[1]) => ~h[j].spam

\* A call admitted exactly W seconds after a rejected call.
C2_Witness ==
  \E k \in Keys :
    LET h == Calls(k)
    IN \E j \in 2..Len(h) :
         /\ h[j].t - h[j - 1].t = TimeWindow(k[1])
         /\ h[j - 1].spam
         /\ ~h[j].spam

(* ------------------------------------------------------------------ *)
(* The event loop with backend calls in flight (SpecLoop)              *)
(* ------------------------------------------------------------------ *)
Live == DOMAIN tasks

\* The places of the backend calls among the operations of a handler.
Invocations(tr) == {k \in DOMAIN tr.fx : tr.fx[k].op = "invoke"}

\* The second at which the backend call at place k returns.
ReturnsAt(tr, k) == tr.fx[k].t + tr.fx[k].n

\* The handler has gone on after its backend call at place k: its next
\* operation is the first message of the reply.
Replied(tr, k) == Len(tr.fx) > k

\* C3: with backend calls outstanding, hung ones included, the loop goes on:
\* every event is dispatched in the second it arrives, every call that returns
\* is answered in the second it returns, and of two calls the one that returns
\* earlier is answered earlier (a call of 1 second before a call of 5).
C3_LoopStaysResponsive ==
  /\ \A id \in Live :
       LET tr == tasks[id]
       IN IF tr.pc = "pending" THEN tr.arrived = now ELSE tr.started = tr.arrived
  /\ \A id \in Live : \A k \in Invocations(tasks[id]) :
       LET tr == tasks[id]
       IN ~tr.hung =>
            IF Replied(tr, k) THEN tr.fx[k + 1].t = ReturnsAt(tr, k)
                              ELSE now <= ReturnsAt(tr, k)
  /\ \A a \in Live, b \in Live :
       \A ka \in Invocations(tasks[a]), kb \in Invocations(tasks[b]) :
         LET ta == tasks[a]
             tb == tasks[b]
         IN /\ ~ta.hung /\ ~tb.hung
            /\ ReturnsAt(tb, kb) < ReturnsAt(ta, ka)
            /\ Replied(ta, ka)
            => Replied(tb, kb) /\ tb.fx[kb + 1].t < ta.fx[ka + 1].t

\* A's call of 5 seconds and B's call of 1 second overlap, B's reply was sent
\* before A's, and a third user's message that arrived while A's call was
\* running was handled in the second it arrived.
C3_Witness ==
  \E a \in Live, b \in Live, c \in Live :
    \E ka \in Invocations(tasks[a]), kb \in Invocations(tasks[b]) :
      LET ta == tasks[a]
          tb == tasks[b]
          tc == tasks[c]
      IN /\ ta.author # tb.author /\ tc.author \notin {ta.author, tb.author}
         /\ ta.fx[ka].n = 5 /\ tb.fx[kb].n = 1
         /\ ~ta.hung /\ ~tb.hung
         /\ ta.fx[ka].t <= tb.fx[kb].t /\ tb.fx[kb].t < ReturnsAt(ta, ka)
         /\ Replied(ta, ka) /\ Replied(tb, kb)
         /\ tb.fx[kb + 1].t < ta.fx[ka + 1].t
         /\ tc.kind = "message" /\ tc.pc = "done"
         /\ ta.fx[ka].t < tc.arrived /\ tc.arrived < ReturnsAt(ta, ka)
         /\ tc.started = tc.arrived

(* ------------------------------------------------------------------ *)
(* The dispatcher, one invocation at a time (Spec)                     *)
(* ------------------------------------------------------------------ *)
\* The selector is a known one up to the case of its letters.
KnownIgnoringCase(sel) ==
  \E m \in KnownModels :
    Len(m) = Len(sel) /\ \A k \in 1..Len(m) : LowerChar(sel[k]) = m[k]

\* The known selector that sel spells.
Selected(sel) ==
  CHOOSE m \in KnownModels :
    Len(m) = Len(sel) /\ \A k \in 1..Len(m) : LowerChar(sel[k]) = m[k]

\* The selected backend has no credential.
NoCredential(sel) ==
  /\ KnownIgnoringCase(sel)
  /\ \/ Selected(sel) = str_chatgpt /\ ~openai_client
     \/ Selected(sel) = str_gemini /\ ~GEMINI_API_KEY

\* The handler of the invocation has been started by the loop.
Started(tr) == tr.pc # "pending"

\* The places of the messages ai_command itself has sent, of its deferred
\* acknowledgments and of its backend calls.
AiSends(tr) == {k \in DOMAIN tr.fx : tr.fx[k].op = "send" /\ tr.fx[k].by = "ai_command"}
Defers(tr) == {k \in DOMAIN tr.fx : tr.fx[k].op = "defer"}

\* In the runs of Spec one handler is live at a time and the clock stands
\* still: the AI limiter admitted the live invocation iff, with its own
\* timestamp, its user's list holds no more than AI_MESSAGE_LIMIT timestamps.
Admitted(tr) == Len(user_ai_times[tr.author]) <= AI_MESSAGE_LIMIT

\* The message names the backend.
Names(provider, ai_model) ==
  Len(provider) = Len(ai_model) /\ \A k \in 1..Len(provider) : LowerChar(provider[k]) = ai_model[k]

OnlyUnavailableNotice(tr) ==
  /\ \E k \in AiSends(tr) :
       /\ AiSends(tr) = {k}
       /\ tr.fx[k].kind = "unavailable"
       /\ Names(tr.fx[k].provider, Selected(tr.sel))
  /\ Invocations(tr) = {}
  /\ Defers(tr) = {}

\* C4, as stated: every invocation whose selected backend has no credential
\* gets exactly one message, the unavailable notice naming the backend, and no
\* deferred acknowledgment or backend call is made for it.
C4_AsStated ==
  \A id \in Live :
    Started(tasks[id]) /\ NoCredential(tasks[id].sel) => OnlyUnavailableNotice(tasks[id])

\* C4, amended: every invocation admitted by the AI limiter whose selected
\* backend has no credential gets exactly one message from the dispatcher, the
\* unavailable notice naming the backend, and no deferred acknowledgment or
\* backend call is made for it.
C4_UnavailableNotice ==
  \A id \in Live :
    Started(tasks[id]) /\ NoCredential(tasks[id].sel) /\ Admitted(tasks[id])
      => OnlyUnavailableNotice(tasks[id])

\* An invocation of a backend without credential has ended with its notice, and
\* the other backend has a credential.
C4_Witness ==
  \E id \in Live :
    /\ tasks[id].pc = "done"
    /\ NoCredential(tasks[id].sel)
    /\ Admitted(tasks[id])
    /\ OnlyUnavailableNotice(tasks[id])
    /\ openai_client # GEMINI_API_KEY

\* C5: when the backend call of an invocation raises, the dispatcher sends
\* exactly one message for it, the error notice with the provider's name and
\* the first 100 characters of the diagnostic at most, and the timestamp the
\* AI limiter recorded at admission is still the last of the user's list.
C5_BackendFailure ==
  \A id \in Live : \A k \in Invocations(tasks[id]) :
    LET tr == tasks[id]
    IN tr.fx[k].st = "raised" =>
         /\ AiSends(tr) = {k + 1}
         /\ tr.fx[k + 1].kind = "error"
         /\ Names(tr.fx[k + 1].provider, Selected(tr.sel))
         /\ tr.fx[k + 1].n <= 100
         /\ tr.fx[k + 1].n = IF tr.fx[k].len < 100 THEN tr.fx[k].len ELSE 100
         /\ user_ai_times[tr.author] # <<>>
         /\ user_ai_times[tr.author][Len(user_ai_times[tr.author])] = tr.started
         /\ Len(user_ai_times[tr.author]) <= AI_MESSAGE_LIMIT

\* A backend call raised with a diagnostic of more than 100 characters and
\* the handler has ended; the call was the user's third in the window.
C5_Witness ==
  \E id \in Live : \E k \in Invocations(tasks[id]) :
    LET tr == tasks[id]
    IN /\ tr.fx[k].st = "raised"
       /\ tr.fx[k].len > 100
       /\ tr.fx[k + 1].n = 100
       /\ tr.pc = "done"
       /\ Len(user_ai_times[tr.author]) = AI_MESSAGE_LIMIT

\* The places of the messages that carry the response text.
ResponseSends(tr) == {k \in AiSends(tr) : tr.fx[k].kind \in {"chunk", "reply"}}

\* The whole response has been sent and every send went through.
Delivered(tr) ==
  /\ tr.pc = "done"
  /\ tr.ai_response >= 0
  /\ \A k \in ResponseSends(tr) : tr.fx[k].st = "ok"
  /\ AiSends(tr) = ResponseSends(tr)

\* C6, as stated: a response of n >= 1 characters is sent as ceil(n/1900)
\* chunks in order, each of 1900 characters of the response except possibly the
\* last, together the whole response, the first one alone with the provider's
\* name in front.
C6_AsStated ==
  \A id \in Live :
    LET tr == tasks[id]
        n == tr.ai_response
        first == CHOOSE k \in Invocations(tr) : TRUE
    IN Delivered(tr) /\ n >= 1 =>
         /\ Cardinality(ResponseSends(tr)) = (n + 1899) \div 1900
         /\ \A k \in ResponseSends(tr) :
              LET j == k - first
                  e == tr.fx[k]
              IN /\ e.lo = (j - 1) * 1900
                 /\ e.n = IF n - e.lo < 1900 THEN n - e.lo ELSE 1900
                 /\ e.n <= 1900
                 /\ (e.provider # <<>>) = (j = 1)
                 /\ j = 1 => Names(e.provider, Selected(tr.sel))

\* C7, as stated: no message the dispatcher sends in reply to an invocation,
\* counted with the provider's name in front, is longer than the 2000
\* characters the transport accepts.
C7_AsStated ==
  \A id \in Live : \A k \in AiSends(tasks[id]) : tasks[id].fx[k].len <= 2000

\* C8: an invocation whose selector is not a known one, whatever the case of
\* its letters, gets one message from the dispatcher, the error notice, and
\* nothing else (should its send fail, on_command_error reports that); no
\* acknowledgment, no backend call, and no step of it changes the AI limiter.
\* A selector that differs from a known one in the case of letters is accepted.
C8_InvalidSelector ==
  /\ [](\A id \in Live :
          LET tr == tasks[id]
          IN Started(tr) =>
               IF KnownIgnoringCase(tr.sel)
                 THEN tr.fx[1].kind # "invalid" /\ tr.ai_model = Selected(tr.sel)
                 ELSE /\ AiSends(tr) = {1}
                      /\ tr.fx[1].kind = "invalid"
                      /\ Defers(tr) = {} /\ Invocations(tr) = {}
                      /\ \A k \in 2..Len(tr.fx) :
                           tr.fx[k].by = "on_command_error" /\ tr.fx[1].st = "error")
  /\ [][\A id \in Live :
          ~KnownIgnoringCase(tasks[id].sel) => user_ai_times' = user_ai_times]_vars

\* An invocation with an unknown selector has ended with the error notice, its
\* user's list in the AI limiter still empty; the keys were both there.
C8_Witness ==
  \E id \in Live :
    LET tr == tasks[id]
    IN /\ tr.sel = str_claude
       /\ tr.pc = "done"
       /\ tr.fx = <<[tr.fx[1] EXCEPT !.kind = "invalid", !.st = "ok"]>>
       /\ user_ai_times[tr.author] = <<>>
       /\ openai_client /\ GEMINI_API_KEY

\* C9: an invocation is acknowledged once at most, only with a known selector,
\* admitted by the AI limiter and with the backend's credential there, and
\* before anything else is sent; its backend call starts only after the
\* acknowledgment went through; an invocation cut short by one of the three
\* checks is neither acknowledged nor passed to a backend.
C9_DeferredAcknowledgment ==
  \A id \in Live :
    LET tr == tasks[id]
    IN /\ Cardinality(Defers(tr)) <= 1
       /\ Cardinality(Invocations(tr)) <= 1
       /\ \A k \in Defers(tr) :
            /\ k = 1
            /\ KnownIgnoringCase(tr.sel) /\ Admitted(tr) /\ ~NoCredential(tr.sel)
       /\ \A k \in Invocations(tr) :
            \E j \in Defers(tr) : j < k /\ tr.fx[j].st = "ok" /\ tr.fx[j].t <= tr.fx[k].t
       /\ Started(tr) /\ (~KnownIgnoringCase(tr.sel) \/ ~Admitted(tr) \/ NoCredential(tr.sel))
            => Defers(tr) = {} /\ Invocations(tr) = {}

\* An invocation, its user's third in the window, was acknowledged, then passed
\* to its backend, and has ended.
C9_Witness ==
  \E id \in Live :
    LET tr == tasks[id]
    IN /\ Defers(tr) = {1} /\ Invocations(tr) = {2}
       /\ tr.fx[1].st = "ok"
       /\ Len(user_ai_times[tr.author]) = AI_MESSAGE_LIMIT
       /\ tr.pc = "done"

\* C10: the chunks of a response are sent in the order of the text, and a
\* chunk's send is started only when the send before it has gone through,
\* whatever the other handlers of the loop do in between.
C10_ChunksInOrder ==
  \A id \in Live :
    LET tr == tasks[id]
    IN \A k \in 1..Len(tr.fx) :
         tr.fx[k].kind = "chunk" =>
           /\ tr.fx[k - 1].kind # "chunk" => tr.fx[k].lo = 0
           /\ tr.fx[k - 1].st # "inflight"
           /\ tr.fx[k - 1].kind = "chunk" =>
                /\ tr.fx[k - 1].st = "ok"
                /\ tr.fx[k].lo = tr.fx[k - 1].lo + tr.fx[k - 1].n
                /\ tr.fx[k].t >= tr.fx[k - 1].t

\* Two responses in the middle of being sent: one handler waits for its third
\* chunk while the other waits for its second.
C10_Witness ==
  \E a \in Live, b \in Live :
    /\ a # b
    /\ tasks[a].pc = "await_chunk" /\ tasks[a].i = 2 * ChunkSize
    /\ tasks[b].pc = "await_chunk" /\ tasks[b].i = ChunkSize

(* ------------------------------------------------------------------ *)
(* The limiter's lists after a check (SpecLimiter)                     *)
(* ------------------------------------------------------------------ *)
\* The dictionary of a limiter.
Times(lim) == IF lim = "message" THEN user_message_times ELSE user_ai_times

\* The time of the latest check on key k.
LastCheck(k) == Calls(k)[Len(Calls(k))].t

\* C15: after a check on a key at time n (the lists change at checks only, so
\* until the key's next check), every timestamp kept for the key is less than
\* W old at n, a timestamp exactly W old being gone; the list is in
\* non-decreasing order; and its last element is n.
C15_ListAfterCheck ==
  \A k \in Keys :
    LET l == Times(k[1])[k[2]]
    IN IF Calls(k) = <<>>
         THEN l = <<>>
         ELSE /\ l # <<>>
              /\ l[Len(l)] = LastCheck(k)
              /\ \A i \in 1..Len(l) : LastCheck(k) - l[i] < TimeWindow(k[1])
              /\ \A i \in 2..Len(l) : l[i - 1] <= l[i]
              /\ \A j \in 1..Len(Calls(k)) :
                   LastCheck(k) - Calls(k)[j].t = TimeWindow(k[1]) =>
                     \A i \in 1..Len(l) : l[i] # Calls(k)[j].t

\* A check made exactly W after an earlier one, with timestamps of two
\* different times kept.
C15_Witness ==
  \E k \in Keys :
    LET l == Times(k[1])[k[2]]
    IN /\ Len(l) >= 3
       /\ l[1] < l[Len(l)]
       /\ \E j \in 1..Len(Calls(k)) : LastCheck(k) - Calls(k)[j].t = TimeWindow(k[1])

\* The calls on the key in the W seconds that end with call j, call j and the
\* rejected ones included.
RecentCalls(h, j, time_window) == {i \in 1..j : h[j].t - h[i].t < time_window}

\* C16: a call is admitted exactly when the calls on its key in the last W
\* seconds, itself included and rejected ones counted, number at most L; so
\* while every call has more than L calls in its last W seconds, none is
\* admitted.
C16_RejectedCallsCount ==
  \A k \in Keys :
    LET h == Calls(k)
    IN \A j \in 1..Len(h) :
         ~h[j].spam <=> Cardinality(RecentCalls(h, j, TimeWindow(k[1]))) <= MessageLimit(k[1])

\* A call rejected although no more than L admitted calls are in its last W
\* seconds: the rejected ones before it count.
C16_Witness ==
  \E k \in Keys :
    LET h == Calls(k)
    IN \E j \in 1..Len(h) :
         /\ h[j].spam
         /\ h[j].t > h[1].t
         /\ Cardinality({i \in RecentCalls(h, j, TimeWindow(k[1])) : ~h[i].spam})
              < MessageLimit(k[1])
         /\ \E i \in RecentCalls(h, j, TimeWindow(k[1])) : i < j /\ h[i].spam

(* ------------------------------------------------------------------ *)
(* The ingress gate (SpecIngress)                                      *)
(* ------------------------------------------------------------------ *)
\* In the runs of SpecIngress one handler is live at a time and the clock
\* stands still, so the latest check of each limiter is the live handler's and
\* nothing has been pruned: the message limiter rejected the live message iff,
\* with its own timestamp, its author's list holds more than
\* SPAM_MESSAGE_LIMIT timestamps.
Flooding(tr) == Len(user_message_times[tr.author]) > SPAM_MESSAGE_LIMIT

\* A user's message the loop has started to handle.
Handled(tr) == tr.kind = "message" /\ ~tr.bot /\ Started(tr)

\* The places of the handler's operations by kind, and of those made for a
\* command: by ai_command or by on_command_error.
OpsOfKind(tr, kind) == {k \in DOMAIN tr.fx : tr.fx[k].kind = kind}
CommandOps(tr) == {k \in DOMAIN tr.fx : tr.fx[k].by \in {"ai_command", "on_command_error"}}

\* No command has been dispatched for the message.
NoCommand(tr) == CommandOps(tr) = {} /\ tr.ai_model = <<>>

\* C11: for a message the message limiter rejects, the handler sends the
\* warning notice and nothing else, and ends when that send has gone through
\* or failed: no audit-log entry, no logs channel created, no command.
C11_RejectedMessageStops ==
  \A id \in Live :
    LET tr == tasks[id]
    IN Handled(tr) /\ Flooding(tr) =>
         /\ Len(tr.fx) = 1
         /\ tr.fx[1].op = "send" /\ tr.fx[1].kind = "warn" /\ tr.fx[1].by = "on_message"
         /\ NoCommand(tr)
         /\ tr.pc = (IF tr.fx[1].st = "inflight" THEN "await_warn" ELSE "done")

\* A rejected guild message carrying an /ai command whose warning failed with
\* an exception other than Forbidden, its handler at its end.
C11_Witness ==
  \E id \in Live :
    LET tr == tasks[id]
    IN /\ Handled(tr) /\ Flooding(tr)
       /\ tr.guild /\ tr.content = "ai"
       /\ tr.pc = "done"
       /\ tr.fx[1].st = "error"

\* The handler is past the logging of lines 141-169.
PastLogging(tr) == tr.pc \notin {"pending", "await_create", "await_log"}

\* process_commands has been reached, as far as the handler's record shows it:
\* an /ai command has run ai_command, a command without its argument has got
\* the notice of on_command_error.
Routed(tr) ==
  /\ tr.content = "ai" => tr.ai_model = lower(tr.sel) /\ CommandOps(tr) # {}
  /\ tr.content = "noargs" => OpsOfKind(tr, "missing") # {}

\* C12: for an accepted message, once the logging is over, whatever the
\* creation of the logs channel and the send of the entry came to, the command
\* has been routed; in a guild the entry was sent unless the channel could not
\* be had, and it was sent before any operation of the command, whose failure
\* leaves it as it was.
C12_RoutingAlwaysReached ==
  \A id \in Live :
    LET tr == tasks[id]
    IN Handled(tr) /\ ~Flooding(tr) =>
         /\ OpsOfKind(tr, "warn") = {}
         /\ PastLogging(tr) =>
              /\ Routed(tr)
              /\ tr.guild =>
                   \/ OpsOfKind(tr, "log") # {}
                   \/ \E k \in OpsOfKind(tr, "logs") : tr.fx[k].st \notin {"ok", "inflight"}
              /\ \A k \in OpsOfKind(tr, "log") :
                   /\ tr.fx[k].st # "inflight"
                   /\ \A j \in CommandOps(tr) : k < j
         /\ ~tr.guild => OpsOfKind(tr, "log") = {} /\ OpsOfKind(tr, "logs") = {}

\* An accepted guild message carrying an /ai command: the logs channel was
\* created, the send of the entry raised, and ai_command has gone as far as
\* its backend call.
C12_Witness ==
  \E id \in Live :
    LET tr == tasks[id]
    IN /\ Handled(tr) /\ ~Flooding(tr)
       /\ tr.content = "ai"
       /\ \E k \in OpsOfKind(tr, "logs") : tr.fx[k].st = "ok"
       /\ \E k \in OpsOfKind(tr, "log") : tr.fx[k].st = "error"
       /\ Invocations(tr) # {}

\* The loop starts the handler of event id in this step.
Starts(id) == id \in Live /\ tasks[id].pc = "pending" /\ tasks'[id].pc # "pending"

\* C20: the handler of a bot's message, the entries and replies this bot
\* itself posts included, ends where it starts: the step changes no list of
\* either limiter, sends or creates nothing, and routes no command.
C20_BotMessagesDropped ==
  /\ [](\A id \in Live :
          LET tr == tasks[id]
          IN tr.kind = "message" /\ tr.bot /\ Started(tr) =>
               tr.pc = "done" /\ tr.fx = <<>> /\ NoCommand(tr))
  /\ [][\A id \in Live :
          Starts(id) /\ tasks[id].kind = "message" /\ tasks[id].bot =>
            /\ user_message_times' = user_message_times
            /\ user_ai_times' = user_ai_times
            /\ logs_channel' = logs_channel]_vars

\* A bot's guild message carrying an /ai command, dropped, in a guild without
\* a logs channel where a user has been handled before.
C20_Witness ==
  \E id \in Live :
    LET tr == tasks[id]
    IN /\ tr.kind = "message" /\ tr.bot /\ Started(tr)
       /\ tr.guild /\ tr.content = "ai"
       /\ ~logs_channel
       /\ user_message_times[tr.author] # <<>>

\* As Flooding, for the AI limiter and the live handler's /ai command.
Throttling(tr) == Len(user_ai_times[tr.author]) > AI_MESSAGE_LIMIT

\* The handler of event id runs ai_command in this step.
RunsCommand(id) == id \in Live /\ tasks[id].ai_model = <<>> /\ tasks'[id].ai_model # <<>>

\* What each limiter decided for the live event depends on its own list alone.
OwnListDecides ==
  \A id \in Live :
    LET tr == tasks[id]
    IN /\ Handled(tr) => (OpsOfKind(tr, "warn") # {} <=> Flooding(tr))
       /\ tr.ai_model \in KnownModels => (OpsOfKind(tr, "throttle") # {} <=> Throttling(tr))

\* C13: the two limiters share no state. A step changes the message
\* limiter's lists only by starting the handler of a user's message, and the AI
\* limiter's lists only by running ai_command; starting an invocation of /ai
\* leaves the message limiter's lists as they are, and so does every later
\* step of a handler; a message that carries no /ai command leaves the AI
\* limiter's lists as they are. So each decision follows from the limiter's
\* own list.
C13_LimitersDisjoint ==
  /\ []OwnListDecides
  /\ [][/\ user_message_times' # user_message_times =>
             \E id \in Live : Starts(id) /\ tasks[id].kind = "message" /\ ~tasks[id].bot
        /\ user_ai_times' # user_ai_times => \E id \in Live : RunsCommand(id)
        /\ \A id \in Live :
             Starts(id) /\ tasks[id].kind = "interaction" =>
               user_message_times' = user_message_times
        /\ \A id \in Live :
             Starts(id) /\ tasks[id].kind = "message" /\ tasks[id].content # "ai" =>
               user_ai_times' = user_ai_times]_vars

\* A user who has used up the AI budget without having sent a message gets a
\* message accepted, and the /ai command it carries is throttled.
C13_Witness ==
  \E id \in Live :
    LET tr == tasks[id]
    IN /\ Handled(tr) /\ tr.content = "ai"
       /\ Len(user_message_times[tr.author]) = 1
       /\ OpsOfKind(tr, "warn") = {}
       /\ OpsOfKind(tr, "throttle") # {}

\* C17: a check on one key leaves the lists of the other keys of its limiter
\* as they are: a step changes the lists of no user but the author of the
\* event whose handler it runs, by appending that check's timestamp, so a
\* user is rejected on the count of that user's own events alone.
C17_KeysDisjoint ==
  /\ [](\A id \in Live :
          LET tr == tasks[id]
          IN Handled(tr) => (tr.pc = "await_warn" => Flooding(tr)))
  /\ [][\A u \in Users :
          /\ user_message_times'[u] # user_message_times[u] =>
               /\ \E id \in Live : Starts(id) /\ tasks[id].author = u
               /\ user_message_times'[u] = Append(user_message_times[u], now)
          /\ user_ai_times'[u] # user_ai_times[u] =>
               /\ \E id \in Live : RunsCommand(id) /\ tasks[id].author = u
               /\ user_ai_times'[u] = Append(user_ai_times[u], now)]_vars

\* One user has been rejected by the message limiter, and the first message of
\* another user has been accepted and logged.
C17_Witness ==
  \E id \in Live, u \in Users :
    LET tr == tasks[id]
    IN /\ u # tr.author
       /\ Len(user_message_times[u]) > SPAM_MESSAGE_LIMIT
       /\ Handled(tr)
       /\ Len(user_message_times[tr.author]) = 1
       /\ \E k \in OpsOfKind(tr, "log") : tr.fx[k].st = "ok"

(* ------------------------------------------------------------------ *)
(* The dispatcher: limiter before availability, errors after chunks     *)
(* (Spec)                                                              *)
(* ------------------------------------------------------------------ *)
\* ai_command has sent this notice and nothing else, without deferring and
\* without calling a backend.
OnlyNotice(tr, kind) ==
  /\ AiSends(tr) # {}
  /\ \A k \in AiSends(tr) : tr.fx[k].kind = kind
  /\ Cardinality(AiSends(tr)) = 1
  /\ Invocations(tr) = {}
  /\ Defers(tr) = {}

\* C18: an invocation with a known selector whose backend has no credential
\* leaves its timestamp in its user's list of the AI limiter; while the list,
\* this timestamp included, holds no more than AI_MESSAGE_LIMIT timestamps of
\* the window the caller gets the unavailable notice, and from the next one
\* on the throttle notice.
C18_LimiterBeforeAvailability ==
  /\ [](\A id \in Live :
          LET tr == tasks[id]
          IN Started(tr) /\ NoCredential(tr.sel) =>
               OnlyNotice(tr, IF Len(user_ai_times[tr.author]) <= AI_MESSAGE_LIMIT
                                THEN "unavailable" ELSE "throttle"))
  /\ [][\A id \in Live :
          Starts(id) /\ NoCredential(tasks[id].sel) =>
            user_ai_times'[tasks[id].author] = Append(user_ai_times[tasks[id].author], now)]_vars

\* With no credential at all, a user's fourth invocation with a known selector
\* has got the throttle notice: the three timestamps before its own are those
\* of invocations that got the unavailable notice.
C18_Witness ==
  \E id \in Live :
    LET tr == tasks[id]
    IN /\ ~openai_client /\ ~GEMINI_API_KEY
       /\ Started(tr) /\ NoCredential(tr.sel)
       /\ Len(user_ai_times[tr.author]) = AI_MESSAGE_LIMIT + 1
       /\ OnlyNotice(tr, "throttle")

\* The places of the error notices of lines 237-239.
ErrorNotices(tr) == OpsOfKind(tr, "error")

\* C19, as stated: the caller gets the chunks of the response or one error
\* notice, never both: no error notice follows a chunk that has been sent.
C19_AsStated ==
  \A id \in Live :
    LET tr == tasks[id]
    IN /\ Cardinality(ErrorNotices(tr)) <= 1
       /\ \A k \in ResponseSends(tr) :
            tr.fx[k].st = "ok" => \A e \in ErrorNotices(tr) : e < k

(* ------------------------------------------------------------------ *)
(* Admission checks of interleaved handlers (SpecRace)                 *)
(* ------------------------------------------------------------------ *)
\* The handlers of user u that have made their check on the message limiter,
\* on the AI limiter.
MessageChecked(u) == {id \in Live : Handled(tasks[id]) /\ tasks[id].author = u}
CommandChecked(u) == {id \in Live : tasks[id].ai_model \in KnownModels /\ tasks[id].author = u}

\* The handlers of user u that a limiter rejected.
Warned(u) == {id \in MessageChecked(u) : OpsOfKind(tasks[id], "warn") # {}}
Throttled(u) == {id \in CommandChecked(u) : OpsOfKind(tasks[id], "throttle") # {}}

\* The number of rejections among n checks made one after the other within
\* one window.
RejectedOf(n, message_limit) == IF n > message_limit THEN n - message_limit ELSE 0

\* C14: check_spam has no await, so a check is one step of the loop however
\* the handlers interleave at their awaits. No timestamp is lost: each list
\* holds one timestamp per check made (all within one window here). Every
\* decision is the sequential one: the check that finds c timestamps of
\* earlier checks appends its own and rejects iff c + 1 exceeds the limit, so
\* of n checks the last n - L are rejected.
C14_ChecksAtomic ==
  /\ [](\A u \in Users :
          /\ Len(user_message_times[u]) = Cardinality(MessageChecked(u))
          /\ Len(user_ai_times[u]) = Cardinality(CommandChecked(u))
          /\ Cardinality(Warned(u)) =
               RejectedOf(Cardinality(MessageChecked(u)), SPAM_MESSAGE_LIMIT)
          /\ Cardinality(Throttled(u)) =
               RejectedOf(Cardinality(CommandChecked(u)), AI_MESSAGE_LIMIT))
  /\ [][\A id \in Live :
          LET u == tasks[id].author
          IN /\ Starts(id) /\ tasks[id].kind = "message" =>
                  /\ user_message_times'[u] = Append(user_message_times[u], now)
                  /\ tasks'[id].pc = "await_warn" <=>
                       Len(user_message_times[u]) + 1 > SPAM_MESSAGE_LIMIT
             /\ RunsCommand(id) =>
                  /\ user_ai_times'[u] = Append(user_ai_times[u], now)
                  /\ tasks'[id].pc = "await_throttle" <=>
                       Len(user_ai_times[u]) + 1 > AI_MESSAGE_LIMIT]_vars

\* The AI limiter has rejected the command of an older message (its check came
\* after the send of the log entry) and admitted a younger invocation, while
\* other handlers wait at their awaits.
C14_Witness ==
  \E a \in Live, b \in Live, c \in Live :
    /\ a < b
    /\ tasks[a].kind = "message" /\ a \in Throttled(tasks[a].author)
    /\ tasks[b].kind = "interaction" /\ tasks[b].author = tasks[a].author
    /\ tasks[b].pc = "await_defer"
    /\ tasks[c].pc = "await_log"

=============================================================================
